---- MODULE Spec2Model ----
(***************************************************************************)
(* A model of shapeup: spatial references (shapeup/sr.py), linear distance  *)
(* units (shapeup/distance.py) and spatially referenced geometries          *)
(* (shapeup/geometry/base.py).                                              *)
(*                                                                          *)
(* Floating point quantities are modelled exactly: longitudes as integer    *)
(* multiples of 1/LonScale degree, distances as rationals <<num, den>>.     *)
(* The geometry engine (shapely) and the projection engine (pyproj) are     *)
(* external; they are modelled by small exact stand-ins (a projection is a  *)
(* translation of the plane that depends on the reference).                 *)
(***************************************************************************)
EXTENDS Integers, Sequences, FiniteSets, TLC

VARIABLES
    heap,                \* the live SrGeometry objects, indexed by identity
    truth,               \* ghost: each object's geometry in WGS-84 coordinates
    proj_cache,          \* sr.py _proj_cache
    sr_cache,            \* sr.py _sr_cache
    transform_fn_cache,  \* sr.py _transform_fn_cache
    engine_asks,         \* number of Proj(init=...) constructions requested
    last,                \* the last call made and what it returned or raised
    arg,                 \* the arguments of a pure function call
    ret                  \* the value of that call

vars == <<heap, truth, proj_cache, sr_cache, transform_fn_cache,
          engine_asks, last, arg, ret>>

----------------------------------------------------------------------------
(* Bounds *)

MaxObjs == 2        \* live objects
MaxAsks == 4        \* projection constructions requested before the model stops
LonScale == 2       \* longitudes are multiples of 1/LonScale degree
MaxLonOver == 30    \* degrees beyond +/-180 that utm() is tried on
MaxLat == 2         \* latitudes -MaxLat .. MaxLat are tried on utm()
MaxQty == 40        \* quantities 0 .. MaxQty are tried on meters()

----------------------------------------------------------------------------
(* shapeup/distance.py *)

Units == {"meters", "kilometers"}

\* a value that is not a member of Units
NotAUnit == "miles"

meter_conversions == [u \in Units |-> IF u = "meters" THEN 1 ELSE 1000]

\* a rational is <<numerator, denominator>>
RatEq(a, b) == a[1] * b[2] = b[1] * a[2]
RECURSIVE GCD(_, _)
GCD(a, b) == IF b = 0 THEN a ELSE GCD(b, a % b)
RatNorm(a) ==
    IF a[1] = 0 THEN <<0, 1>>
    ELSE <<a[1] \div GCD(a[1], a[2]), a[2] \div GCD(a[1], a[2])>>
RatAdd(a, b) == RatNorm(<<a[1] * b[2] + b[1] * a[2], a[2] * b[2]>>)

meters_get(n, units) ==
    IF units \in DOMAIN meter_conversions
    THEN [err |-> "none", val |-> <<n, meter_conversions[units]>>]
    ELSE [err |-> "none", val |-> <<n, 1>>]

\* meters()
meters(n, units) ==
    IF units \in DOMAIN meter_conversions
    THEN [err |-> "none", val |-> <<n, meter_conversions[units]>>]
    ELSE [err |-> "KeyError", val |-> <<0, 1>>]

----------------------------------------------------------------------------
(* shapeup/sr.py: Sr, sr(), utm() *)

EPSG == "epsg"

Sr(srid, authority) == [srid |-> srid, authority |-> authority]

WGS_84 == Sr(4326, EPSG)

SrKey(s) == <<s.srid, s.authority>>

\* sr(): the cached Sr of a pair, and the cache after the call
sr(cache, srid, authority) ==
    LET key == <<srid, authority>> IN
    IF key \in DOMAIN cache
    THEN [val |-> cache[key], cache |-> cache]
    ELSE [val |-> Sr(srid, authority),
          cache |-> [k \in DOMAIN cache \cup {key} |->
                        IF k = key THEN Sr(srid, authority) ELSE cache[k]]]

\* str() of a natural number: its decimal digits
RECURSIVE str(_)
str(n) == IF n < 10 THEN <<n>> ELSE str(n \div 10) \o <<n % 10>>

\* int() of a sequence of decimal digits
RECURSIVE int(_)
int(ds) ==
    IF Len(ds) = 0 THEN 0
    ELSE 10 * int(SubSeq(ds, 1, Len(ds) - 1)) + ds[Len(ds)]

\* math.floor((lon + 180) / 6), lon = lonS / LonScale
FloorBand(lonS) == (lonS + 180 * LonScale) \div (6 * LonScale)

utm_band(lonS) ==
    LET b == str((FloorBand(lonS) % 60) + 1) IN
    IF Len(b) = 1 THEN <<0>> \o b ELSE b

utm_srid_gt(lat, lonS) ==
    IF lat > 0 THEN int(<<3, 2, 6>> \o utm_band(lonS))
    ELSE int(<<3, 2, 7>> \o utm_band(lonS))

utm_srid(lat, lonS) ==
    IF lat >= 0 THEN int(<<3, 2, 6>> \o utm_band(lonS))
    ELSE int(<<3, 2, 7>> \o utm_band(lonS))

utm(cache, lat, lonS) == sr(cache, utm_srid(lat, lonS), EPSG)

----------------------------------------------------------------------------
(* The projection engine (pyproj), as far as sr.py uses it.  A reference    *)
(* is identified to the engine by the pair (srid, authority).               *)

UtmNorth == 32601 .. 32660
UtmSouth == 32701 .. 32760

\* Proj(init='authority:srid') succeeds for the references the engine knows
EngineAccepts(key) ==
    /\ key[2] = EPSG
    /\ key[1] \in {4326} \cup UtmNorth \cup UtmSouth

\* where a reference puts the point lon = 0, lat = 0
Off(key) ==
    IF key[2] # EPSG THEN <<1, 1>>
    ELSE IF key[1] \in UtmNorth
         THEN <<500 - (6 * (key[1] - 32600) - 183), 0>>
    ELSE IF key[1] \in UtmSouth
         THEN <<500 - (6 * (key[1] - 32700) - 183), 10000>>
    ELSE <<0, 0>>

Fwd(key, p) == <<p[1] + Off(key)[1], p[2] + Off(key)[2]>>
Inv(key, p) == <<p[1] - Off(key)[1], p[2] - Off(key)[2]>>

\* pyproj.transform(p1, p2, x, y)
pyproj_transform(p1, p2, p) == Fwd(p2.init, Inv(p1.init, p))

----------------------------------------------------------------------------
(* The geometry engine (shapely), as far as geometry/base.py uses it.       *)
(* A geometry is its type, its vertices and the radius it was buffered by.  *)

NoRad == <<0, 1>>

Point(x, y) == [type |-> "Point", pts |-> <<<<x, y>>>>, rad |-> NoRad]
LineString(p, q) == [type |-> "LineString", pts |-> <<p, q>>, rad |-> NoRad]
Polygon(p, q, r) == [type |-> "Polygon", pts |-> <<p, q, r>>, rad |-> NoRad]

RECURSIVE SumX(_)
SumX(ps) == IF Len(ps) = 0 THEN 0 ELSE ps[1][1] + SumX(Tail(ps))
RECURSIVE SumY(_)
SumY(ps) == IF Len(ps) = 0 THEN 0 ELSE ps[1][2] + SumY(Tail(ps))

Mid(ps) == <<SumX(ps) \div Len(ps), SumY(ps) \div Len(ps)>>

is_empty(g) == Len(g.pts) = 0

centroid(g) == Point(Mid(g.pts)[1], Mid(g.pts)[2])
representative_point(g) == Point(Mid(g.pts)[1], Mid(g.pts)[2])
interpolate_half(g) == Point(Mid(g.pts)[1], Mid(g.pts)[2])

geom_buffer(g, d) ==
    [type |-> "Polygon", pts |-> g.pts, rad |-> RatAdd(g.rad, d)]

\* topological equality
equals(g, h) ==
    /\ {g.pts[k] : k \in 1 .. Len(g.pts)} = {h.pts[k] : k \in 1 .. Len(h.pts)}
    /\ RatEq(g.rad, h.rad)
    /\ g.type = h.type

\* shapely.ops.transform(fn, geom), fn = partial(pyproj.transform, p1, p2)
ops_transform(fn, g) ==
    IF is_empty(g) THEN g
    ELSE [g EXCEPT !.pts = [k \in 1 .. Len(g.pts) |->
                               pyproj_transform(fn.p1, fn.p2, g.pts[k])]]

\* shapely.geometry.mapping(geom): coordinates come as tuples
mapping(g) ==
    [type |-> g.type,
     coordinates |-> [container |-> "tuple", pts |-> g.pts, rad |-> g.rad]]

\* shapely.geometry.shape(m): coordinates may be tuples or lists
shape(m) ==
    [type |-> m.type, pts |-> m.coordinates.pts, rad |-> m.coordinates.rad]

----------------------------------------------------------------------------
(* The caches of sr.py.  W is the state of the module's globals during a    *)
(* call: pc = _proj_cache, tc = _transform_fn_cache, sc = _sr_cache,        *)
(* asks = constructions requested of the engine, lookups = cache lookups    *)
(* made by the call.                                                        *)

Put(f, k, v) == [x \in DOMAIN f \cup {k} |-> IF x = k THEN v ELSE f[x]]

NoHandle == [id |-> 0, init |-> <<0, "">>]
NoFn == [p1 |-> NoHandle, p2 |-> NoHandle]

\* the value of a one-element set: The({ e(x) : x \in {v} }) is e(v), with
\* v computed once
The(S) == CHOOSE x \in S : TRUE

\* one more cache lookup
Look(W) == [W EXCEPT !.lookups = @ + 1]

proj_miss_insert_first(W, key) ==
    IF EngineAccepts(key)
    THEN The({ [err |-> "none", val |-> h,
                W |-> [W EXCEPT !.pc = Put(W.pc, key, h), !.asks = @ + 1]]
               : h \in {[id |-> Cardinality(DOMAIN W.pc) + 1, init |-> key]} })
    ELSE [err |-> "ProjError", val |-> NoHandle,
          W |-> [W EXCEPT !.pc = Put(W.pc, key, NoHandle), !.asks = @ + 1]]

\* Proj(init=f'{authority}:{srid}'), and the insertion that follows it
proj_miss(W, key) ==
    IF EngineAccepts(key)
    THEN The({ [err |-> "none", val |-> h,
                W |-> [W EXCEPT !.pc = Put(W.pc, key, h), !.asks = @ + 1]]
               : h \in {[id |-> Cardinality(DOMAIN W.pc) + 1, init |-> key]} })
    ELSE [err |-> "ProjError", val |-> NoHandle,
          W |-> [W EXCEPT !.asks = @ + 1]]

proj_nocache(W, s) ==
    proj_miss(Look(W), <<s.srid, s.authority>>)

\* Sr.proj
proj(W, s) ==
    IF <<s.srid, s.authority>> \in DOMAIN W.pc
    THEN [err |-> "none", val |-> W.pc[<<s.srid, s.authority>>],
          W |-> Look(W)]
    ELSE proj_miss(Look(W), <<s.srid, s.authority>>)

transform_fn_reversed_key(W, from_, to) ==
    IF <<from_, to>> \in DOMAIN W.tc
    THEN [err |-> "none", val |-> W.tc[<<from_, to>>], W |-> Look(W)]
    ELSE The({
        IF a.err # "none" THEN [err |-> a.err, val |-> NoFn, W |-> a.W]
        ELSE The({
            IF b.err # "none" THEN [err |-> b.err, val |-> NoFn, W |-> b.W]
            ELSE [err |-> "none", val |-> [p1 |-> a.val, p2 |-> b.val],
                  W |-> [b.W EXCEPT !.tc = Put(b.W.tc, <<to, from_>>,
                                               [p1 |-> a.val, p2 |-> b.val])]]
            : b \in {proj(a.W, to)} })
        : a \in {proj(Look(W), from_)} })

\* _transform_fn(from_, to); geometry/base.py imports it as transform_fn
transform_fn(W, from_, to) ==
    IF <<from_, to>> \in DOMAIN W.tc
    THEN [err |-> "none", val |-> W.tc[<<from_, to>>], W |-> Look(W)]
    ELSE The({
        IF a.err # "none" THEN [err |-> a.err, val |-> NoFn, W |-> a.W]
        ELSE The({
            IF b.err # "none" THEN [err |-> b.err, val |-> NoFn, W |-> b.W]
            ELSE [err |-> "none", val |-> [p1 |-> a.val, p2 |-> b.val],
                  W |-> [b.W EXCEPT !.tc = Put(b.W.tc, <<from_, to>>,
                                               [p1 |-> a.val, p2 |-> b.val])]]
            : b \in {proj(a.W, to)} })
        : a \in {proj(Look(W), from_)} })

----------------------------------------------------------------------------
(* shapeup/geometry/base.py: the classes *)

Classes == {"SrGeometry", "SrPoint", "SrPolygon", "SrPolyline"}

\* the class a class derives from
Base(cls) ==
    IF cls \in {"SrPoint", "SrPolygon", "SrPolyline"} THEN "SrGeometry"
    ELSE IF cls = "SrGeometry" THEN "Exportable"
    ELSE "object"

\* the special methods a class body defines
DefinesEq(cls) == cls = "SrGeometry"
DefinesHash(cls) == FALSE

\* What type.__hash__ is for a class: a class body that defines __eq__
\* without __hash__ gets __hash__ = None; otherwise __hash__ is inherited,
\* in the end from object, which hashes by identity.
RECURSIVE hash_slot(_)
hash_slot(cls) ==
    IF cls = "object" THEN "identity"
    ELSE IF DefinesHash(cls) THEN "custom"
    ELSE IF DefinesEq(cls) THEN "None"
    ELSE hash_slot(Base(cls))

\* hash(o) for the object with identity i
hash(o, i) ==
    IF hash_slot(o.cls) = "None" THEN [err |-> "TypeError", val |-> 0]
    ELSE [err |-> "none", val |-> i]

\* SrGeometry.__init__ (and the subclasses' __init__, which only delegate)
New(cls, base_geometry, sr_) ==
    [cls |-> cls, base_geometry |-> base_geometry, sr |-> sr_]

\* shapeup.types.pyfqn / pycls: the fully qualified name of an object's
\* class, and the class of a fully qualified name
Module == "shapeup.geometry.base"
pyfqn(o) == <<Module, o.cls>>
pycls(fqn, default) ==
    IF fqn[1] = Module /\ fqn[2] \in Classes THEN fqn[2] ELSE default

\* typing.cast does nothing at run time
cast(cls, v) == v

\* results of a method: err, the object returned, and ref = its identity
\* when it is an object that existed before the call (0: a new object)
Raise(e, W) == [err |-> e, ref |-> 0,
                obj |-> New("SrGeometry", Point(0, 0), WGS_84), W |-> W]
Return(ref, obj, W) == [err |-> "none", ref |-> ref, obj |-> obj, W |-> W]

\* SrGeometry.__copy__
copy(self) == New(self.cls, self.base_geometry, self.sr)

\* the transformation proper, wrapped with the reference sr_
transform_to(W, self, sr_) ==
    The({ IF f.err # "none" THEN Raise(f.err, f.W)
          ELSE Return(0, New("SrGeometry",
                             ops_transform(f.val, self.base_geometry), sr_),
                      f.W)
          : f \in {transform_fn(W, self.sr, sr_)} })

transform_keep_sr(W, self, i, sr_, copy_) ==
    IF sr_ = self.sr
    THEN IF copy_ THEN Return(0, copy(self), W) ELSE Return(i, self, W)
    ELSE The({ IF r.err # "none" THEN r
               ELSE [r EXCEPT !.obj.sr = self.sr]
               : r \in {transform_to(W, self, sr_)} })

transform_always_copy(W, self, i, sr_, copy_) ==
    IF sr_ = self.sr
    THEN Return(0, copy(self), W)
    ELSE transform_to(W, self, sr_)

\* SrGeometry.transform
transform(W, self, i, sr_, copy_) ==
    IF sr_ = self.sr
    THEN IF copy_ THEN Return(0, copy(self), W) ELSE Return(i, self, W)
    ELSE transform_to(W, self, sr_)

\* SrGeometry.as_wgs84
as_wgs84(W, self, i) ==
    IF self.sr = WGS_84 THEN Return(i, self, W)
    ELSE transform(W, self, i, WGS_84, TRUE)

\* the rest of as_utm once the representative point rp is known
as_utm_from(W, self, i, rp) ==
    The({ IF u.val = self.sr
          THEN Return(i, self, [Look(W) EXCEPT !.sc = u.cache])
          ELSE transform([Look(W) EXCEPT !.sc = u.cache], self, i, u.val, TRUE)
          : u \in {utm(W.sc, rp.pts[1][2], rp.pts[1][1] * LonScale)} })

\* as_utm up to the representative point: the object whose geometry, in
\* WGS-84 coordinates, gives the representative point
as_utm_wgs84(W, self, i) ==
    IF self.sr = WGS_84 THEN Return(i, self, W)
    ELSE transform(W, self, i, WGS_84, TRUE)

as_utm_any_zone(W, self, i) ==
    IF self.sr.srid \in UtmNorth \cup UtmSouth THEN Return(i, self, W)
    ELSE The({ IF t.err # "none" THEN t
               ELSE as_utm_from(t.W, self, i,
                                representative_point(t.obj.base_geometry))
               : t \in {as_utm_wgs84(W, self, i)} })

\* SrGeometry.as_utm
as_utm(W, self, i) ==
    The({ IF t.err # "none" THEN t
          ELSE as_utm_from(t.W, self, i,
                           representative_point(t.obj.base_geometry))
          : t \in {as_utm_wgs84(W, self, i)} })

\* the rest of buffer once base_utm = self.as_utm() is known
buffer_from(W, self, base_utm, n, units) ==
    The({ IF m.err # "none" THEN Raise(m.err, W)
          ELSE transform(W,
                         New("SrGeometry",
                             geom_buffer(base_utm.base_geometry, m.val),
                             base_utm.sr),
                         0, self.sr, TRUE)
          : m \in {meters(n, units)} })

\* SrGeometry.buffer
SrGeometry_buffer(W, self, i, n, units) ==
    The({ IF a.err # "none" THEN a
          ELSE buffer_from(a.W, self, a.obj, n, units)
          : a \in {as_utm(W, self, i)} })

\* SrPoint.buffer
SrPoint_buffer(W, self, i, n, units) ==
    cast("SrPolygon", SrGeometry_buffer(W, self, i, n, units))

\* buffer, as the receiver's class resolves it
buffer(W, self, i, n, units) ==
    IF self.cls = "SrPoint" THEN SrPoint_buffer(W, self, i, n, units)
    ELSE SrGeometry_buffer(W, self, i, n, units)

\* location, as the receiver's class resolves it: SrPoint.location,
\* SrPolyline.location, SrGeometry.location
location(W, self, i) ==
    IF self.cls = "SrPoint" THEN Return(i, self, W)
    ELSE IF self.cls = "SrPolyline"
    THEN Return(0, New("SrPoint", interpolate_half(self.base_geometry),
                       self.sr), W)
    ELSE Return(0, New("SrPoint", centroid(self.base_geometry), self.sr), W)

\* Sr._asdict()
asdict(s) == [srid |-> s.srid, authority |-> s.authority]

export_wgs84(self) ==
    ("__type__" :> pyfqn(self)) @@
    ("base_geometry" :> mapping(self.base_geometry)) @@
    ("sr_" :> asdict(WGS_84))

\* SrGeometry.export
export(self) ==
    ("__type__" :> pyfqn(self)) @@
    ("base_geometry" :> mapping(self.base_geometry)) @@
    ("sr_" :> asdict(self.sr))

\* json.loads(json.dumps(data)): tuples come back as lists
json_roundtrip(data) ==
    [k \in DOMAIN data |->
        IF k = "base_geometry"
        THEN [data[k] EXCEPT !.coordinates.container = "list"]
        ELSE data[k]]

\* SrGeometry.load (cls is the class load is called on); data is not empty
load(cls, data) ==
    LET cls_ == IF "__type__" \in DOMAIN data
                THEN pycls(data["__type__"], cls) ELSE cls
    IN  New(cls_, shape(data["base_geometry"]),
            Sr(data["sr_"].srid, data["sr_"].authority))

\* SrGeometry.__eq__ between two SrGeometry objects
eq(self, other) ==
    IF self.sr # other.sr THEN FALSE
    ELSE IF is_empty(self.base_geometry) THEN is_empty(other.base_geometry)
    ELSE equals(self.base_geometry, other.base_geometry)

----------------------------------------------------------------------------
(* The inputs the operations are tried on *)

U15N == Sr(32615, EPSG)
U15S == Sr(32715, EPSG)
\* a reference the engine rejects
BAD == Sr(4326, "nope")

P1 == <<-94, 45>>
P2 == <<-94, -33>>
P3 == <<-93, 45>>

\* (class, geometry in WGS-84 coordinates, reference) for the constructors
Constructions ==
    { <<"SrPoint", Point(P2[1], P2[2]), U15N>>,
      <<"SrPolyline", LineString(P1, P2), WGS_84>>,
      <<"SrPolygon", Polygon(P1, P2, P3), U15N>>,
      <<"SrGeometry", LineString(P1, P3), BAD>> }

TargetSrs == {WGS_84, U15N, BAD}
BufferQtys == {1}

\* geometry g, given in WGS-84 coordinates, in the coordinates of s
InSr(s, g) ==
    [g EXCEPT !.pts = [k \in 1 .. Len(g.pts) |-> Fwd(SrKey(s), g.pts[k])]]

----------------------------------------------------------------------------
(* State *)

NoArg == [fn |-> "none"]
NoRet == [err |-> "pending", val |-> 0]

NoCall == [op |-> "none", recv |-> 0, sr_ |-> WGS_84, copy_ |-> TRUE,
           units |-> "", err |-> "none", res |-> 0, lookups |-> 0,
           changed |-> FALSE, eq |-> FALSE, hash_a |-> NoRet,
           hash_b |-> NoRet, handle |-> NoHandle]

Init ==
    /\ heap = <<>>
    /\ truth = <<>>
    /\ proj_cache = <<>>
    /\ sr_cache = <<>>
    /\ transform_fn_cache = <<>>
    /\ engine_asks = 0
    /\ last = NoCall
    /\ arg = NoArg
    /\ ret = NoRet

\* the module globals as a call finds them
Globals ==
    [pc |-> proj_cache, tc |-> transform_fn_cache, sc |-> sr_cache,
     asks |-> engine_asks, lookups |-> 0]

SetGlobals(W) ==
    /\ proj_cache' = W.pc
    /\ transform_fn_cache' = W.tc
    /\ sr_cache' = W.sc
    /\ engine_asks' = W.asks

CachesChanged(W) ==
    proj_cache # W.pc \/ transform_fn_cache # W.tc

\* a new object enters the heap
Alloc(obj, g) ==
    /\ Len(heap) < MaxObjs
    /\ heap' = Append(heap, obj)
    /\ truth' = Append(truth, g)

\* a method call on object i returned r; g is the geometry, in WGS-84
\* coordinates, of what the call is meant to return
Called(call, rr, g) ==
    \E r \in {rr} :
    /\ engine_asks < MaxAsks
    /\ SetGlobals(r.W)
    /\ IF r.err = "none" /\ r.ref = 0
       THEN Alloc(r.obj, g)
       ELSE UNCHANGED <<heap, truth>>
    /\ last' = [call EXCEPT
                  !.err = r.err,
                  !.res = IF r.err # "none" THEN 0
                          ELSE IF r.ref = 0 THEN Len(heap) + 1 ELSE r.ref,
                  !.lookups = r.W.lookups,
                  !.changed = CachesChanged(r.W)]
    /\ UNCHANGED <<arg, ret>>

----------------------------------------------------------------------------
(* Operations *)

\* SrPoint.from_lat_lon
FromLatLon(p) ==
    /\ heap = <<>>
    /\ Alloc(New("SrPoint", Point(p[1], p[2]), WGS_84), Point(p[1], p[2]))
    /\ last' = [NoCall EXCEPT !.op = "from_lat_lon", !.res = Len(heap) + 1]
    /\ UNCHANGED <<proj_cache, sr_cache, transform_fn_cache, engine_asks,
                   arg, ret>>

\* SrGeometry(...), SrPoint(...), SrPolygon(...), SrPolyline(...) on a
\* geometry whose coordinates are in the reference given
Construct(c) ==
    /\ heap = <<>>
    /\ Alloc(New(c[1], InSr(c[3], c[2]), c[3]), c[2])
    /\ last' = [NoCall EXCEPT !.op = "init", !.res = Len(heap) + 1]
    /\ UNCHANGED <<proj_cache, sr_cache, transform_fn_cache, engine_asks,
                   arg, ret>>

\* s.proj
Proj(s) ==
    \E r \in {proj(Globals, s)} :
    /\ engine_asks < MaxAsks
    /\ SetGlobals(r.W)
    /\ last' = [NoCall EXCEPT !.op = "proj", !.sr_ = s, !.err = r.err,
                              !.handle = r.val, !.lookups = r.W.lookups,
                              !.changed = CachesChanged(r.W)]
    /\ UNCHANGED <<heap, truth, arg, ret>>

Transform(i, sr_, copy_) ==
    Called([NoCall EXCEPT !.op = "transform", !.recv = i, !.sr_ = sr_,
                          !.copy_ = copy_],
           transform(Globals, heap[i], i, sr_, copy_), truth[i])

AsWgs84(i) ==
    Called([NoCall EXCEPT !.op = "as_wgs84", !.recv = i],
           as_wgs84(Globals, heap[i], i), truth[i])

AsUtm(i) ==
    Called([NoCall EXCEPT !.op = "as_utm", !.recv = i],
           as_utm(Globals, heap[i], i), truth[i])

Buffer(i, n, units) ==
    Called([NoCall EXCEPT !.op = "buffer", !.recv = i, !.units = units],
           buffer(Globals, heap[i], i, n, units),
           geom_buffer(truth[i], meters(n, units).val))

Location(i) ==
    Called([NoCall EXCEPT !.op = "location", !.recv = i],
           location(Globals, heap[i], i),
           IF heap[i].cls = "SrPolyline" THEN interpolate_half(truth[i])
           ELSE centroid(truth[i]))

\* copy.copy(w)
Copy(i) ==
    Called([NoCall EXCEPT !.op = "copy", !.recv = i],
           Return(0, copy(heap[i]), Globals), truth[i])

\* tests/geometry/base/test_sr_point.py test_export_load, on any object:
\* export, through JSON, load, compare, hash both
ExportLoad(i) ==
    \E loaded \in {load("SrGeometry", json_roundtrip(export(heap[i])))} :
    /\ Alloc(loaded, truth[i])
    /\ last' = [NoCall EXCEPT !.op = "export_load", !.recv = i,
                              !.res = Len(heap) + 1,
                              !.eq = eq(loaded, heap[i]),
                              !.hash_a = hash(loaded, Len(heap) + 1),
                              !.hash_b = hash(heap[i], i)]
    /\ UNCHANGED <<proj_cache, sr_cache, transform_fn_cache, engine_asks,
                   arg, ret>>

Objs == 1 .. Len(heap)

Next ==
    \/ \E p \in {P1, P2} : FromLatLon(p)
    \/ \E c \in Constructions : Construct(c)
    \/ \E s \in TargetSrs : Proj(s)
    \/ \E i \in Objs, s \in TargetSrs, c \in BOOLEAN : Transform(i, s, c)
    \/ \E i \in Objs : AsWgs84(i)
    \/ \E i \in Objs : AsUtm(i)
    \/ \E i \in Objs, n \in BufferQtys, u \in Units \cup {NotAUnit} :
            Buffer(i, n, u)
    \/ \E i \in Objs : Location(i)
    \/ \E i \in Objs : Copy(i)
    \/ \E i \in Objs : ExportLoad(i)

Spec == Init /\ [][Next]_vars

----------------------------------------------------------------------------
(* meters() and utm() on their own *)

QtyArgs == [fn : {"meters"}, n : 0 .. MaxQty, units : Units \cup {NotAUnit}]

LonArgs ==
    [fn : {"utm"}, lat : -MaxLat .. MaxLat,
     lonS : -((180 + MaxLonOver) * LonScale) .. (180 + MaxLonOver) * LonScale]

InitMeters ==
    /\ heap = <<>> /\ truth = <<>> /\ proj_cache = <<>> /\ sr_cache = <<>>
    /\ transform_fn_cache = <<>> /\ engine_asks = 0 /\ last = NoCall
    /\ arg \in QtyArgs
    /\ ret = NoRet

MetersCall ==
    /\ arg.fn = "meters"
    /\ ret = NoRet
    /\ ret' = meters(arg.n, arg.units)
    /\ UNCHANGED <<heap, truth, proj_cache, sr_cache, transform_fn_cache,
                   engine_asks, last, arg>>

NextMeters == MetersCall

SpecMeters == InitMeters /\ [][NextMeters]_vars

InitUtm ==
    /\ heap = <<>> /\ truth = <<>> /\ proj_cache = <<>> /\ sr_cache = <<>>
    /\ transform_fn_cache = <<>> /\ engine_asks = 0 /\ last = NoCall
    /\ arg \in LonArgs
    /\ ret = NoRet

UtmCall ==
    \E u \in {utm(sr_cache, arg.lat, arg.lonS)} :
    /\ arg.fn = "utm"
    /\ ret = NoRet
    /\ ret' = [err |-> "none", val |-> u.val]
    /\ sr_cache' = u.cache
    /\ UNCHANGED <<heap, truth, proj_cache, transform_fn_cache,
                   engine_asks, last, arg>>

NextUtm == UtmCall

SpecUtm == InitUtm /\ [][NextUtm]_vars

----------------------------------------------------------------------------
(* Properties *)

Recv == heap[last.recv]
Res == heap[last.res]

\* C1: an object that is exported, passed through JSON and loaded compares
\* equal to the original: same sr fields and an equal geometry.
C1_RoundTripEqual ==
    last.op = "export_load" =>
        /\ last.eq
        /\ Res.sr.srid = Recv.sr.srid
        /\ Res.sr.authority = Recv.sr.authority
        /\ equals(Res.base_geometry, Recv.base_geometry)

C1_Witness ==
    /\ last.op = "export_load"
    /\ Recv.sr # WGS_84
    /\ Recv.cls # "SrGeometry"
    /\ last.res # last.recv

\* C2: hash() of the loaded twin and of the original are both defined and
\* are the same value.
C2_HashEqual ==
    last.op = "export_load" =>
        /\ last.hash_a.err = "none"
        /\ last.hash_b.err = "none"
        /\ last.hash_a.val = last.hash_b.val

\* C3: meters(n, units) is n times the table factor of units.
C3_MetersMultiplies ==
    (ret # NoRet /\ arg.units \in Units) =>
        /\ ret.err = "none"
        /\ RatEq(ret.val, <<arg.n * meter_conversions[arg.units], 1>>)

\* C4: utm(lat, lon) is the EPSG reference 326bb (lat >= 0) or 327bb
\* (lat < 0), bb = floor((lon + 180) / 6) mod 60 + 1, which is in 1..60 and
\* is 1 for lon = 180 and for lon = -180.
C4_UtmZone ==
    ret # NoRet =>
        LET band == (((arg.lonS + 180 * LonScale) \div (6 * LonScale)) % 60) + 1
            prefix == IF arg.lat >= 0 THEN 326 ELSE 327
        IN  /\ ret.val = Sr(prefix * 100 + band, EPSG)
            /\ ret.val.srid % 100 \in 1 .. 60
            /\ ret.val.srid \div 100 \in {326, 327}
            /\ (arg.lonS \in {180 * LonScale, -180 * LonScale}
                    => ret.val.srid % 100 = 1)

C4_Witness ==
    /\ ret # NoRet
    /\ arg.lat = 0
    /\ arg.lonS = 180 * LonScale
    /\ ret.val.srid = 32601

\* C5: a pair that has a projection handle keeps that handle for ever, and
\* resolving it again returns that handle without asking the engine.
C5_ProjMemoized ==
    [][ /\ \A k \in DOMAIN proj_cache :
              k \in DOMAIN proj_cache' /\ proj_cache'[k] = proj_cache[k]
        /\ (last'.op = "proj" /\ SrKey(last'.sr_) \in DOMAIN proj_cache) =>
              /\ last'.err = "none"
              /\ last'.handle = proj_cache[SrKey(last'.sr_)]
              /\ engine_asks' = engine_asks ]_vars

C5_Witness ==
    /\ last.op = "proj"
    /\ last.err = "none"
    /\ ~last.changed
    /\ last.handle = proj_cache[SrKey(last.sr_)]
    /\ Cardinality(DOMAIN proj_cache) > 1

\* C6: every object's coordinates are its geometry expressed in its declared
\* sr, and no operation changes an object that exists.
C6_SrMatchesCoordinates ==
    /\ [](\A i \in Objs : heap[i].base_geometry = InSr(heap[i].sr, truth[i]))
    /\ [][\A i \in Objs : heap'[i] = heap[i] /\ truth'[i] = truth[i]]_vars

C6_Witness ==
    /\ last.op \in {"transform", "as_utm", "buffer"}
    /\ last.err = "none"
    /\ last.res # last.recv
    /\ Res.sr # Recv.sr
    /\ Res.base_geometry = InSr(Res.sr, truth[last.res])
    /\ Res.base_geometry # Recv.base_geometry

\* C7: buffer returns an SrPolygon whose sr is the receiver's sr.
C7_BufferReturnsPolygon ==
    (last.op = "buffer" /\ last.err = "none") =>
        /\ Res.cls = "SrPolygon"
        /\ Res.sr = Recv.sr

\* C8 as stated: a buffer call with units that are not in the table raises
\* the units error and leaves both caches as they were.
C8_BadUnitsAtomic ==
    (last.op = "buffer" /\ last.units \notin Units) =>
        /\ last.err = "KeyError"
        /\ ~last.changed

\* C8 as amended: a buffer call with units that are not in the table returns
\* no object and raises: the units error when the receiver's reference is one
\* the engine accepts, else the error of as_utm(), which runs first; the
\* caches keep every entry they had, and may have gained entries.
C8_BadUnitsFails ==
    [][ (last'.op = "buffer" /\ last'.units \notin Units) =>
            /\ last'.err \in {"KeyError", "ProjError"}
            /\ (EngineAccepts(SrKey(heap[last'.recv].sr))
                    => last'.err = "KeyError")
            /\ last'.res = 0
            /\ heap' = heap
            /\ \A k \in DOMAIN proj_cache :
                  k \in DOMAIN proj_cache' /\ proj_cache'[k] = proj_cache[k]
            /\ \A k \in DOMAIN transform_fn_cache :
                  /\ k \in DOMAIN transform_fn_cache'
                  /\ transform_fn_cache'[k] = transform_fn_cache[k] ]_vars

C8_Witness ==
    /\ last.op = "buffer"
    /\ last.units \notin Units
    /\ last.err = "KeyError"
    /\ last.changed

\* C9: w.transform(w.sr) returns an object equal to w, of w's class and sr:
\* a new one when copy_ is true, w itself when copy_ is false; no cache is
\* read or changed.
C9_TransformToOwnSr ==
    (last.op = "transform" /\ last.sr_ = Recv.sr) =>
        /\ last.err = "none"
        /\ eq(Res, Recv) /\ eq(Recv, Res)
        /\ Res.sr = Recv.sr
        /\ Res.cls = Recv.cls
        /\ (last.copy_ => last.res # last.recv /\ last.res = Len(heap))
        /\ (~last.copy_ => last.res = last.recv)
        /\ last.lookups = 0
        /\ ~last.changed

C9_Witness ==
    /\ last.op = "transform"
    /\ last.sr_ = Recv.sr
    /\ last.copy_
    /\ Recv.cls = "SrPolygon"
    /\ last.res # last.recv

\* the srid of the UTM zone of the representative point, in WGS-84, of
\* object i
ZoneOf(i) ==
    LET rp == representative_point(truth[i]) IN
    Sr(utm_srid(rp.pts[1][2], rp.pts[1][1] * LonScale), EPSG)

Rejected(s) == ~EngineAccepts(SrKey(s))

\* the step is a call that has to resolve a reference the engine rejects
AsksRejected ==
    \/ last'.op = "proj" /\ Rejected(last'.sr_)
    \/ /\ last'.op = "transform"
       /\ last'.sr_ # heap[last'.recv].sr
       /\ (Rejected(last'.sr_) \/ Rejected(heap[last'.recv].sr))
    \/ /\ last'.op \in {"as_wgs84", "as_utm", "buffer"}
       /\ Rejected(heap[last'.recv].sr)

\* C11: a call that has to resolve a rejected pair raises the engine's
\* error and returns nothing; a rejected pair never has a projection handle
\* cached, nor a transform function for any (from, to) that involves it; and
\* every such call asks the engine again.
C11_RejectedNotCached ==
    /\ [](/\ \A k \in DOMAIN proj_cache : EngineAccepts(k)
          /\ \A k \in DOMAIN transform_fn_cache :
                ~Rejected(k[1]) /\ ~Rejected(k[2]))
    /\ [][ /\ AsksRejected =>
                /\ last'.err = "ProjError"
                /\ last'.res = 0
                /\ heap' = heap
                /\ engine_asks' > engine_asks
           /\ last'.err = "ProjError" => AsksRejected ]_vars

C11_Witness ==
    /\ last.op \in {"transform", "as_wgs84", "as_utm", "buffer"}
    /\ last.err = "ProjError"
    /\ engine_asks > Cardinality(DOMAIN proj_cache) + 1
    /\ SrKey(BAD) \notin DOMAIN proj_cache
    /\ \A k \in DOMAIN transform_fn_cache : k[1] # BAD /\ k[2] # BAD

\* the transform function of the ordered pair k, as the handles cached now
\* bind it
BoundFn(k) == [p1 |-> proj_cache[SrKey(k[1])], p2 |-> proj_cache[SrKey(k[2])]]

\* the step is a call that requests the transform function of exactly one
\* ordered pair
RequestsOne ==
    /\ last'.op \in {"transform", "as_wgs84"}
    /\ last'.err = "none"
    /\ last'.res # last'.recv

\* the pair such a step requests
Requested ==
    <<heap[last'.recv].sr,
      IF last'.op = "transform" THEN last'.sr_ ELSE WGS_84>>

\* C12: every key (from, to) of the transform function cache has both its
\* references in the projection handle cache, and its function is bound to
\* those two handles in that order; a request for (A, B) adds no key but
\* (A, B) and transforms with the function of (A, B), not of (B, A).
C12_TransformFnKeys ==
    /\ [](\A k \in DOMAIN transform_fn_cache :
            /\ SrKey(k[1]) \in DOMAIN proj_cache
            /\ SrKey(k[2]) \in DOMAIN proj_cache
            /\ transform_fn_cache[k] = BoundFn(k))
    /\ [][ (RequestsOne /\ Requested[1] # Requested[2]) =>
            /\ Requested \in DOMAIN transform_fn_cache'
            /\ DOMAIN transform_fn_cache' \ DOMAIN transform_fn_cache
                    \subseteq {Requested}
            /\ \A k \in DOMAIN transform_fn_cache :
                    transform_fn_cache'[k] = transform_fn_cache[k]
            /\ heap'[last'.res].base_geometry =
                    ops_transform(transform_fn_cache'[Requested],
                                  heap[last'.recv].base_geometry) ]_vars

C12_Witness ==
    /\ last.op = "transform"
    /\ last.err = "none"
    /\ Recv.sr # last.sr_
    /\ <<Recv.sr, last.sr_>> \in DOMAIN transform_fn_cache
    /\ <<last.sr_, Recv.sr>> \notin DOMAIN transform_fn_cache
    /\ transform_fn_cache[<<Recv.sr, last.sr_>>].p1.init = SrKey(Recv.sr)
    /\ transform_fn_cache[<<Recv.sr, last.sr_>>].p2.init = SrKey(last.sr_)
    /\ Res.base_geometry # Recv.base_geometry

====
